---- MODULE Spec2Model ----
(***************************************************************************)
(* Script Documenter AI: the App component (upload, sequential analysis    *)
(* run, cancellation, review, reset) and the documentation service.        *)
(*                                                                         *)
(* Strings are sequences of one-character strings, so that split, trim,    *)
(* toLowerCase and startsWith are computed rather than assumed.  Fixed     *)
(* literals of the source are kept as single tokens of such a sequence.    *)
(* A nullable field is Null (the empty tuple) or Some(v) (a 1-tuple).      *)
(***************************************************************************)
EXTENDS Integers, Sequences, FiniteSets, TLC

VARIABLES
  mainProjectFiles,      \* useState<ProjectFile[]>, grouping 'main'
  frontendProjectFiles,  \* useState<ProjectFile[]>, grouping 'frontend'
  appState,              \* 'uploading' | 'loading' | 'reviewing'
  isCancelled,           \* isCancelledRef.current
  pc,                    \* position of handleAnalyze: "idle", "loop", "await"
  i,                     \* loop index of handleAnalyze (0-based, as in the code)
  allFiles,              \* the run's captured list: references into the groupings
  ctx,                   \* detailedProjectContext of the run
  inflight,              \* loop indices whose external request is outstanding
  calls,                 \* log of the external requests of the run, with their outcomes
  order,                 \* log of the processing steps begun: the reference and the text read
  cancelAt,              \* loop index in flight at the first cancel of the run, -1 if none
  staleAtStart,          \* value of the cancel flag when the run was started
  fileName,              \* input of the classifier specification
  label,                 \* output of the classifier specification
  isDownloading,         \* useState of ReviewChanges
  zip,                   \* the archive of handleApplyAndDownload and what became of it
  svcIn,                 \* input of the service specification: an answer of the external call
  svcOut                 \* output of the service specification: what the run stores for it

vars == <<mainProjectFiles, frontendProjectFiles, appState, isCancelled, pc, i,
          allFiles, ctx, inflight, calls, order, cancelAt, staleAtStart,
          fileName, label, isDownloading, zip, svcIn, svcOut>>

runVars == <<pc, i, allFiles, ctx, inflight, calls, order, cancelAt, staleAtStart>>
clsVars == <<fileName, label>>
expVars == <<isDownloading, zip>>
svcVars == <<svcIn, svcOut>>

----------------------------------------------------------------------------
\* Bounds of the model

\* total number of ProjectFile records over both groupings
MaxFiles == 2
\* length of the file names fed to the classifier specification
MaxNameLen == 3
\* length of the error messages and response bodies fed to the service specification
MaxTextLen == 3

----------------------------------------------------------------------------
\* Strings

Null == <<>>
Some(v) == <<v>>

UpperChars == <<"A","B","C","D","E","F","G","H","I","J","K","L","M",
                "N","O","P","Q","R","S","T","U","V","W","X","Y","Z">>
LowerChars == <<"a","b","c","d","e","f","g","h","i","j","k","l","m",
                "n","o","p","q","r","s","t","u","v","w","x","y","z">>

ToLowerChar(c) ==
  IF \E k \in 1..26 : UpperChars[k] = c
  THEN LowerChars[CHOOSE k \in 1..26 : UpperChars[k] = c]
  ELSE c

\* String.prototype.toLowerCase
ToLowerCase(s) == [k \in 1..Len(s) |-> ToLowerChar(s[k])]

\* String.prototype.startsWith
StartsWith(s, p) == Len(s) >= Len(p) /\ SubSeq(s, 1, Len(p)) = p

WhiteSpace == {" ", "\n", "\t", "\r"}

\* String.prototype.trim
Trim(s) ==
  LET keep == {k \in 1..Len(s) : s[k] \notin WhiteSpace}
  IN  IF keep = {} THEN <<>>
      ELSE LET lo == CHOOSE k \in keep : \A m \in keep : k <= m
               hi == CHOOSE k \in keep : \A m \in keep : k >= m
           IN  SubSeq(s, lo, hi)

\* fileName.split('.').pop(): the part after the last '.', the whole name
\* when it holds no '.'
SplitPop(s) ==
  LET dots == {k \in 1..Len(s) : s[k] = "."}
  IN  IF dots = {} THEN s
      ELSE LET last == CHOOSE k \in dots : \A m \in dots : k >= m
           IN  SubSeq(s, last + 1, Len(s))

----------------------------------------------------------------------------
\* FileClassifier

getFileLanguage(name) ==
  LET extension == ToLowerCase(SplitPop(name))
  IN  CASE extension = <<"j","s">> -> "JavaScript"
        [] extension = <<"t","s">> -> "TypeScript"
        [] extension = <<"p","y">> -> "Python"
        [] extension = <<"j","a","v","a">> -> "Java"
        [] extension = <<"g","o">> -> "Go"
        [] extension = <<"g","s">> -> "Google Apps Script"
        [] OTHER -> "code"

----------------------------------------------------------------------------
\* DocumentationService (generateDocumentation)

IsLetter(c) == \E k \in 1..26 : UpperChars[k] = c \/ LowerChars[k] = c

\* String.prototype.includes
Includes(s, sub) ==
  \E k \in 0..(Len(s) - Len(sub)) : SubSeq(s, k + 1, k + Len(sub)) = sub

\* a service that skips the request for the sentinel label only
ShortCircuitsOnLabelOnly(script, language) == language = "code"

\* line 47: the request is skipped for the sentinel label and for blank text
ShortCircuits(script, language) ==
  language = "code" \/ Len(Trim(script)) = 0

\* the character U+0060, which the lexer of TLA+ does not admit in a string
Backtick == "<backtick>"

Fence == <<Backtick, Backtick, Backtick>>

\* documentedScript.match(codeBlockRegex), line 81: the opening fence, the
\* longest run of letters, one optional newline, then everything up to the
\* closing fence that ends the text
FenceMatches(d) ==
  /\ Len(d) >= 6
  /\ SubSeq(d, 1, 3) = Fence
  /\ SubSeq(d, Len(d) - 2, Len(d)) = Fence

FenceGroup(d) ==
  LET body == SubSeq(d, 4, Len(d) - 3)
      stop == {k \in 1..Len(body) : ~IsLetter(body[k])}
      tag  == IF stop = {} THEN Len(body)
              ELSE (CHOOSE k \in stop : \A m \in stop : k <= m) - 1
      nl   == IF tag < Len(body) /\ body[tag + 1] = "\n" THEN 1 ELSE 0
  IN  SubSeq(body, tag + nl + 1, Len(body))

\* lines 79-86: the text returned for a successful response
PostProcess(text) ==
  LET documentedScript == Trim(text)
  IN  IF FenceMatches(documentedScript)
      THEN Trim(FenceGroup(documentedScript))
      ELSE documentedScript

\* JSON.parse, for texts built of objects, strings without escapes and
\* unsigned integers: [ok, val, next]; a value is [t |-> "str", v],
\* [t |-> "num", v] or [t |-> "obj", fields] with fields a sequence of
\* <<key, value>> pairs
Digits == {"0","1","2","3","4","5","6","7","8","9"}

RECURSIVE SkipWs(_, _)
SkipWs(s, p) == IF p <= Len(s) /\ s[p] \in WhiteSpace THEN SkipWs(s, p + 1) ELSE p

ParseFail == [ok |-> FALSE, val |-> [t |-> "undefined"], next |-> 0]

ParseString(s, p) ==
  IF p > Len(s) \/ s[p] # "\"" THEN ParseFail
  ELSE LET close == {q \in (p + 1)..Len(s) : s[q] = "\""}
       IN  IF close = {} THEN ParseFail
           ELSE LET q == CHOOSE q \in close : \A m \in close : q <= m
                IN  [ok |-> TRUE, val |-> [t |-> "str", v |-> SubSeq(s, p + 1, q - 1)],
                     next |-> q + 1]

ParseNumber(s, p) ==
  LET stop == {q \in p..Len(s) : s[q] \notin Digits}
      end  == IF stop = {} THEN Len(s) + 1 ELSE CHOOSE q \in stop : \A m \in stop : q <= m
  IN  IF end = p \/ (end - p > 1 /\ s[p] = "0") THEN ParseFail
      ELSE [ok |-> TRUE, val |-> [t |-> "num", v |-> SubSeq(s, p, end - 1)], next |-> end]

RECURSIVE ParseValue(_, _)
RECURSIVE ParseMembers(_, _, _)

\* the members of an object after its opening brace or after a comma: acc holds the pairs so far
ParseMembers(s, p, acc) ==
  LET k == ParseString(s, SkipWs(s, p))
  IN  IF ~k.ok THEN ParseFail
      ELSE LET c == SkipWs(s, k.next)
           IN  IF c > Len(s) \/ s[c] # ":" THEN ParseFail
               ELSE LET v == ParseValue(s, SkipWs(s, c + 1))
                    IN  IF ~v.ok THEN ParseFail
                        ELSE LET e    == SkipWs(s, v.next)
                                 acc2 == Append(acc, <<k.val.v, v.val>>)
                             IN  IF e > Len(s) THEN ParseFail
                                 ELSE IF s[e] = "," THEN ParseMembers(s, e + 1, acc2)
                                 ELSE IF s[e] = "}"
                                 THEN [ok |-> TRUE, val |-> [t |-> "obj", fields |-> acc2],
                                       next |-> e + 1]
                                 ELSE ParseFail

ParseValue(s, p) ==
  IF p > Len(s) THEN ParseFail
  ELSE IF s[p] = "\"" THEN ParseString(s, p)
  ELSE IF s[p] \in Digits THEN ParseNumber(s, p)
  ELSE IF s[p] = "{"
  THEN LET q == SkipWs(s, p + 1)
       IN  IF q <= Len(s) /\ s[q] = "}"
           THEN [ok |-> TRUE, val |-> [t |-> "obj", fields |-> <<>>], next |-> q + 1]
           ELSE ParseMembers(s, p + 1, <<>>)
  ELSE ParseFail

JsonParse(s) ==
  LET r == ParseValue(s, SkipWs(s, 1))
  IN  IF r.ok /\ SkipWs(s, r.next) = Len(s) + 1 THEN r ELSE ParseFail

\* property access obj.key: the last pair with that key, undefined otherwise
GetProp(val, key) ==
  IF val.t # "obj" THEN [t |-> "undefined"]
  ELSE LET hit == {k \in 1..Len(val.fields) : val.fields[k][1] = key}
       IN  IF hit = {} THEN [t |-> "undefined"]
           ELSE val.fields[CHOOSE k \in hit : \A m \in hit : k >= m][2]

Truthy(val) ==
  CASE val.t = "str" -> val.v # <<>>
    [] val.t = "num" -> val.v # <<"0">>
    [] val.t = "obj" -> TRUE
    [] OTHER -> FALSE

\* template-literal conversion of a value
ToText(val) ==
  CASE val.t = "str" -> val.v
    [] val.t = "num" -> val.v
    [] val.t = "obj" -> <<"[object Object]">>
    [] OTHER -> <<"undefined">>

UnknownServiceError == <<"An unknown error occurred while communicating with the AI model.">>
RetryHint == <<"\nThis could be a temporary issue with the AI service or the request might be too large. Please try again later or with fewer files.">>

\* lines 91-106: the message chosen for the caught error
FinalMessage(error) ==
  IF error.isError /\ error.message # <<>>
  THEN LET parsed == JsonParse(error.message)
           inner  == GetProp(GetProp(parsed.val, <<"e","r","r","o","r">>),
                             <<"m","e","s","s","a","g","e">>)
       IN  IF parsed.ok /\ Truthy(GetProp(parsed.val, <<"e","r","r","o","r">>)) /\ Truthy(inner)
           THEN <<"The AI model returned an error: ">> \o ToText(inner)
           ELSE <<"An unexpected error occurred: ">> \o error.message
  ELSE UnknownServiceError

\* a mapping that appends no hint
MapErrorWithoutHint(error) == FinalMessage(error)

\* lines 88-112: the message of the Error the service throws
MapError(error) ==
  LET finalMessage == FinalMessage(error)
  IN  IF Includes(finalMessage, <<"5","0","0">>)
         \/ Includes(finalMessage, <<"R","p","c"," ","f","a","i","l","e","d">>)
      THEN finalMessage \o RetryHint
      ELSE finalMessage

----------------------------------------------------------------------------
\* The inputs of the model

\* the browser File objects a user can supply: a name and the text a
\* FileReader delivers for it
RawFiles == {
  [name |-> <<"a", ".", "p", "y">>,                          text |-> <<"f">>],
  [name |-> <<"R", "E", "A", "D", "M", "E", ".", "m", "d">>, text |-> <<"r">>],
  [name |-> <<"r", "e", "a", "d", "m", "e", ".", "J", "S">>, text |-> <<" ">>],
  [name |-> <<"C", "h", "a", "n", "g", "e", "L", "o", "g">>, text |-> <<"c">>] }

UploadSets(room) == UNION {[1..n -> RawFiles] : n \in 0..room}

\* response.text of a successful external call
Responses == {
  <<"d", "\n">>,
  <<Backtick, Backtick, Backtick, "j", "s", "\n", "d", "\n", Backtick, Backtick, Backtick>> }

\* what the external call can throw
Errors == {
  [isError |-> TRUE,
   message |-> <<"{", "\"", "e", "r", "r", "o", "r", "\"", ":", "{", "\"", "m", "e", "s", "s",
                 "a", "g", "e", "\"", ":", "\"", "q", "\"", "}", "}">>],
  [isError |-> TRUE,  message |-> <<"5", "0", "0">>],
  [isError |-> FALSE, message |-> <<>>] }

----------------------------------------------------------------------------
\* App: the ProjectFile records

\* lines 42-49; raw and pending are the File being read and whether the
\* FileReader created at line 52 still has to deliver it to this object
NewProjectFile(file) ==
  [name |-> file.name, content |-> <<>>, language |-> getFileLanguage(file.name),
   documentedContent |-> Null, error |-> Null, isIncluded |-> TRUE,
   raw |-> file.text, pending |-> TRUE]

Files(project) == IF project = "main" THEN mainProjectFiles ELSE frontendProjectFiles

FileAt(ref) == Files(ref.project)[ref.index]

\* a write through a reference held by the run or by a FileReader
WriteFile(ref, rec) ==
  /\ mainProjectFiles' = IF ref.project = "main"
                         THEN [mainProjectFiles EXCEPT ![ref.index] = rec]
                         ELSE mainProjectFiles
  /\ frontendProjectFiles' = IF ref.project = "frontend"
                             THEN [frontendProjectFiles EXCEPT ![ref.index] = rec]
                             ELSE frontendProjectFiles

Refs(project) == {[project |-> project, index |-> k] : k \in 1..Len(Files(project))}

\* the groupings spread in the other order
AllFilesFrontendFirst(main, frontend) ==
  [k \in 1..Len(frontend) |-> [project |-> "frontend", index |-> k]]
  \o [k \in 1..Len(main) |-> [project |-> "main", index |-> k]]

\* line 69: [...mainProjectFiles, ...frontendProjectFiles]
AllFilesOf(main, frontend) ==
  [k \in 1..Len(main) |-> [project |-> "main", index |-> k]]
  \o [k \in 1..Len(frontend) |-> [project |-> "frontend", index |-> k]]

\* line 180
canAnalyze == Len(mainProjectFiles) > 0 \/ Len(frontendProjectFiles) > 0

----------------------------------------------------------------------------
\* App: the project context (lines 75-86)

\* a search that keeps the last match
FindLastPrefixed(files, prefix) ==
  LET hit == {k \in 1..Len(files) : StartsWith(ToLowerCase(files[k].name), prefix)}
  IN  IF hit = {} THEN 0 ELSE CHOOSE k \in hit : \A m \in hit : k >= m

\* a search for the word anywhere in the name
FindContaining(files, prefix) ==
  LET hit == {k \in 1..Len(files) : Includes(ToLowerCase(files[k].name), prefix)}
  IN  IF hit = {} THEN 0 ELSE CHOOSE k \in hit : \A m \in hit : k <= m

\* Array.prototype.find: the index of the first element with the prefix, 0 if none
FindPrefixed(files, prefix) ==
  LET hit == {k \in 1..Len(files) : StartsWith(ToLowerCase(files[k].name), prefix)}
  IN  IF hit = {} THEN 0 ELSE CHOOSE k \in hit : \A m \in hit : k <= m

RECURSIVE JoinNames(_, _)
\* allFiles.map(f => `- ${f.name}`).join('\n'), from element k on
JoinNames(files, k) ==
  IF k > Len(files) THEN <<>>
  ELSE (IF k > 1 THEN <<"\n">> ELSE <<>>) \o <<"- ">> \o files[k].name
       \o JoinNames(files, k + 1)

BuildContext(files) ==
  LET readmeFile    == FindPrefixed(files, <<"r","e","a","d","m","e">>)
      changelogFile == FindPrefixed(files, <<"c","h","a","n","g","e","l","o","g">>)
  IN  <<"This project contains the following files:\n">> \o JoinNames(files, 1)
      \o (IF readmeFile # 0
          THEN <<"\n\n--- PROJECT README ---\n">> \o files[readmeFile].content
               \o <<"\n--- END README ---">>
          ELSE <<>>)
      \o (IF changelogFile # 0
          THEN <<"\n\n--- PROJECT CHANGELOG ---\n">> \o files[changelogFile].content
               \o <<"\n--- END CHANGELOG ---">>
          ELSE <<>>)

----------------------------------------------------------------------------
\* App: the analysis run (handleAnalyze) and the other handlers.
\* A handler runs to completion: the events of the page (a click, a
\* FileReader load) are served only while no handler is executing, that is
\* while pc is "idle" or the run is suspended in the external request.

\* no archive is being made, none has been made
NoZip == [status |-> "none", main_project |-> Null, frontend_project |-> Null]

\* the variables of the review view and of the service specification at rest
IdleRest ==
  /\ isDownloading = FALSE /\ zip = NoZip
  /\ svcIn = Null /\ svcOut = Null

IdleRun ==
  /\ pc = "idle" /\ i = 0 /\ allFiles = <<>> /\ ctx = <<>> /\ inflight = {}
  /\ calls = <<>> /\ order = <<>> /\ cancelAt = -1 /\ staleAtStart = FALSE

Init ==
  /\ mainProjectFiles = <<>>
  /\ frontendProjectFiles = <<>>
  /\ appState = "uploading"
  /\ isCancelled = FALSE
  /\ IdleRun
  /\ fileName = <<>>
  /\ label = Null
  /\ IdleRest

\* lines 41-64, offered by the FileUpload components of the 'uploading' view
HandleFilesUpload(project, files) ==
  /\ appState = "uploading" /\ pc = "idle"
  /\ LET projectFiles == [k \in 1..Len(files) |-> NewProjectFile(files[k])]
     IN  IF project = "main"
         THEN mainProjectFiles' = projectFiles /\ UNCHANGED frontendProjectFiles
         ELSE frontendProjectFiles' = projectFiles /\ UNCHANGED mainProjectFiles
  /\ UNCHANGED <<appState, isCancelled, runVars, clsVars, expVars, svcVars>>

\* lines 53-55: reader.onload writes the text into the record it was created for
ReadComplete(ref) ==
  /\ pc \in {"idle", "await"}
  /\ FileAt(ref).pending
  /\ WriteFile(ref, [FileAt(ref) EXCEPT !.content = FileAt(ref).raw, !.pending = FALSE])
  /\ UNCHANGED <<appState, isCancelled, runVars, clsVars, expVars, svcVars>>

\* a start that leaves the flag of the earlier run in place
FlagLeftAsIs(flag) == flag

\* line 67
FlagAtStart(flag) == FALSE

\* lines 66-88: the synchronous start of a run, behind the Analyze button
\* (lines 197, 218-220)
HandleAnalyze ==
  /\ appState = "uploading" /\ pc = "idle" /\ canAnalyze
  /\ isCancelled' = FlagAtStart(isCancelled)
  /\ staleAtStart' = isCancelled
  /\ LET all == AllFilesOf(mainProjectFiles, frontendProjectFiles)
     IN  IF Len(all) = 0
         THEN /\ appState' = "uploading"
              /\ UNCHANGED <<pc, i, allFiles, ctx, inflight, calls, order, cancelAt>>
         ELSE /\ appState' = "loading"
              /\ allFiles' = all
              /\ ctx' = BuildContext([k \in 1..Len(all) |-> FileAt(all[k])])
              /\ i' = 0
              /\ pc' = "loop"
              /\ inflight' = {}
              /\ calls' = <<>>
              /\ order' = <<>>
              /\ cancelAt' = -1
  /\ UNCHANGED <<mainProjectFiles, frontendProjectFiles, clsVars, expVars, svcVars>>

\* a loop that never looks at the cancel flag
LoopIgnoringCancel(idx, total, cancelled) == idx < total

\* lines 90-93: the loop condition and the cancellation check
LoopContinues(idx, total, cancelled) == idx < total /\ ~cancelled

\* line 99 and line 103
Documented(file, text) == [file EXCEPT !.documentedContent = Some(text)]

\* lines 104-105
CatchMessage(err) == IF err.isError THEN err.message ELSE <<"An unknown error occurred.">>

\* a catch that also falls back to the original text
FailedWithFallback(file, err) ==
  [file EXCEPT !.error = Some(CatchMessage(err)), !.documentedContent = Some(file.content)]

\* a catch that only logs
FailedSilently(file, err) == file

Failed(file, err) == [file EXCEPT !.error = Some(CatchMessage(err))]

\* a run that never leaves the spinner
StillLoading == "loading"

\* line 113
CompletedState == "reviewing"

cur == allFiles[i + 1]

\* lines 94-100: a file of the sentinel label is passed through
SkipNonCode ==
  /\ pc = "loop" /\ LoopContinues(i, Len(allFiles), isCancelled)
  /\ FileAt(cur).language = "code"
  /\ WriteFile(cur, Documented(FileAt(cur), FileAt(cur).content))
  /\ i' = i + 1
  /\ order' = Append(order, [ref |-> cur, script |-> FileAt(cur).content])
  /\ UNCHANGED <<appState, isCancelled, pc, allFiles, ctx, inflight, calls, cancelAt,
                 staleAtStart, clsVars, expVars, svcVars>>

\* lines 94-103 with the service returning at its line 48: the awaited
\* promise is already resolved, and the continuation runs before any event
DocumentBlank ==
  /\ pc = "loop" /\ LoopContinues(i, Len(allFiles), isCancelled)
  /\ FileAt(cur).language # "code"
  /\ ShortCircuits(FileAt(cur).content, FileAt(cur).language)
  /\ WriteFile(cur, Documented(FileAt(cur), FileAt(cur).content))
  /\ i' = i + 1
  /\ order' = Append(order, [ref |-> cur, script |-> FileAt(cur).content])
  /\ UNCHANGED <<appState, isCancelled, pc, allFiles, ctx, inflight, calls, cancelAt,
                 staleAtStart, clsVars, expVars, svcVars>>

\* where the run is after issuing the external request: suspended in the await
AfterRequest(idx) == [pc |-> "await", i |-> idx]

\* lines 94-102 with the service reaching ai.models.generateContent (line 71)
StartCall ==
  /\ pc = "loop" /\ LoopContinues(i, Len(allFiles), isCancelled)
  /\ FileAt(cur).language # "code"
  /\ ~ShortCircuits(FileAt(cur).content, FileAt(cur).language)
  /\ inflight' = inflight \cup {i}
  /\ calls' = Append(calls, [index |-> i, contents |-> FileAt(cur).content,
                             language |-> FileAt(cur).language, projectContext |-> ctx,
                             outcome |-> "pending", thrown |-> Null])
  /\ order' = Append(order, [ref |-> cur, script |-> FileAt(cur).content])
  /\ pc' = AfterRequest(i).pc
  /\ i' = AfterRequest(i).i
  /\ UNCHANGED <<mainProjectFiles, frontendProjectFiles, appState, isCancelled, allFiles,
                 ctx, cancelAt, staleAtStart, clsVars, expVars, svcVars>>

\* service lines 79-86, then line 103
ServiceReturn(text) ==
  /\ pc = "await" /\ i \in inflight
  /\ WriteFile(cur, Documented(FileAt(cur), PostProcess(text)))
  /\ calls' = [calls EXCEPT ![Len(calls)].outcome = "returned"]
  /\ inflight' = inflight \ {i}
  /\ i' = i + 1
  /\ pc' = "loop"
  /\ UNCHANGED <<appState, isCancelled, allFiles, ctx, order, cancelAt,
                 staleAtStart, clsVars, expVars, svcVars>>

\* service lines 88-112, then lines 104-106
ServiceFail(error) ==
  /\ pc = "await" /\ i \in inflight
  /\ WriteFile(cur, Failed(FileAt(cur), [isError |-> TRUE, message |-> MapError(error)]))
  /\ calls' = [calls EXCEPT ![Len(calls)].outcome = "threw",
                            ![Len(calls)].thrown = Some(MapError(error))]
  /\ inflight' = inflight \ {i}
  /\ i' = i + 1
  /\ pc' = "loop"
  /\ UNCHANGED <<appState, isCancelled, allFiles, ctx, order, cancelAt,
                 staleAtStart, clsVars, expVars, svcVars>>

\* lines 110-113, reached when the loop is exhausted or left by the break
FinishRun ==
  /\ pc = "loop" /\ ~LoopContinues(i, Len(allFiles), isCancelled)
  /\ appState' = CompletedState
  /\ pc' = "idle"
  /\ UNCHANGED <<mainProjectFiles, frontendProjectFiles, isCancelled, i, allFiles, ctx,
                 inflight, calls, order, cancelAt, staleAtStart, clsVars, expVars, svcVars>>

\* lines 117-119, behind the Cancel button of the 'loading' view (lines 139-150)
HandleCancel ==
  /\ appState = "loading" /\ pc = "await"
  /\ isCancelled' = TRUE
  /\ cancelAt' = IF cancelAt = -1 THEN i ELSE cancelAt
  /\ UNCHANGED <<mainProjectFiles, frontendProjectFiles, appState, pc, i, allFiles, ctx,
                 inflight, calls, order, staleAtStart, clsVars, expVars, svcVars>>

\* lines 125-127: a matching record is replaced by a copy, which no
\* FileReader refers to
Toggled(files, name) ==
  [k \in 1..Len(files) |->
     IF files[k].name = name
     THEN [files[k] EXCEPT !.isIncluded = ~files[k].isIncluded, !.pending = FALSE]
     ELSE files[k]]

\* a toggle that is offered whatever the view
ToggleInAnyView(project, name) ==
  /\ pc \in {"idle", "await"}
  /\ IF project = "main"
     THEN mainProjectFiles' = Toggled(mainProjectFiles, name)
          /\ UNCHANGED frontendProjectFiles
     ELSE frontendProjectFiles' = Toggled(frontendProjectFiles, name)
          /\ UNCHANGED mainProjectFiles
  /\ UNCHANGED <<appState, isCancelled, runVars, clsVars, expVars, svcVars>>

\* lines 121-129, offered by the 'reviewing' view (lines 152-160)
ToggleFileInclusion(project, name) ==
  /\ appState = "reviewing" /\ pc = "idle"
  /\ IF project = "main"
     THEN mainProjectFiles' = Toggled(mainProjectFiles, name)
          /\ UNCHANGED frontendProjectFiles
     ELSE frontendProjectFiles' = Toggled(frontendProjectFiles, name)
          /\ UNCHANGED mainProjectFiles
  /\ UNCHANGED <<appState, isCancelled, runVars, clsVars, expVars, svcVars>>

\* lines 131-135, offered by the 'reviewing' view; the locals of the
\* finished run are dropped with it, and so is the state of the view (an
\* archive still being generated sets nothing that outlives the view)
HandleReset ==
  /\ appState = "reviewing" /\ pc = "idle"
  /\ mainProjectFiles' = <<>>
  /\ frontendProjectFiles' = <<>>
  /\ appState' = "uploading"
  /\ i' = 0 /\ allFiles' = <<>> /\ ctx' = <<>> /\ calls' = <<>> /\ order' = <<>>
  /\ cancelAt' = -1 /\ staleAtStart' = FALSE
  /\ isDownloading' = FALSE
  /\ zip' = NoZip
  /\ UNCHANGED <<isCancelled, pc, inflight, clsVars, svcVars>>

Projects == {"main", "frontend"}

Other(project) == IF project = "main" THEN "frontend" ELSE "main"

Upload == \E project \in Projects :
            \E files \in UploadSets(MaxFiles - Len(Files(Other(project)))) :
              HandleFilesUpload(project, files)

Read == \E project \in Projects : \E ref \in Refs(project) : ReadComplete(ref)

Return == \E text \in Responses : ServiceReturn(text)

Fail == \E error \in Errors : ServiceFail(error)

Toggle == \E project \in Projects :
            \E k \in 1..Len(Files(project)) :
              ToggleFileInclusion(project, Files(project)[k].name)

Next ==
  \/ Upload
  \/ Read
  \/ HandleAnalyze
  \/ SkipNonCode
  \/ DocumentBlank
  \/ StartCall
  \/ Return
  \/ Fail
  \/ FinishRun
  \/ HandleCancel
  \/ Toggle
  \/ HandleReset

Spec == Init /\ [][Next]_vars

\* the scheduling the run relies on: the engine runs the continuation of the
\* handler, and every external request is answered or fails
LiveSpec ==
  /\ Spec
  /\ WF_vars(SkipNonCode) /\ WF_vars(DocumentBlank) /\ WF_vars(StartCall)
  /\ WF_vars(FinishRun)
  /\ WF_vars(Return \/ Fail)

----------------------------------------------------------------------------
\* The classifier on its own: every name up to MaxNameLen over an alphabet
\* holding the dot, both cases of an extension and a letter of no extension

ClassifyAlphabet == {"j", "s", "J", "S", ".", "x"}

InitClassify ==
  /\ fileName \in UNION {[1..n -> ClassifyAlphabet] : n \in 0..MaxNameLen}
  /\ label = Null
  /\ mainProjectFiles = <<>>
  /\ frontendProjectFiles = <<>>
  /\ appState = "uploading"
  /\ isCancelled = FALSE
  /\ IdleRun
  /\ IdleRest

Classify ==
  /\ label = Null
  /\ label' = Some(getFileLanguage(fileName))
  /\ UNCHANGED <<mainProjectFiles, frontendProjectFiles, appState, isCancelled, runVars,
                 fileName, expVars, svcVars>>

NextClassify == Classify

SpecClassify == InitClassify /\ [][NextClassify]_vars

----------------------------------------------------------------------------
\* The ordering scenario: a.py, b.readme and c.js uploaded into 'main' and
\* d.ts into 'frontend', then one run; the reads complete at any time

ScenarioMain ==
  << [name |-> <<"a", ".", "p", "y">>,                     text |-> <<"f">>],
     [name |-> <<"b", ".", "r", "e", "a", "d", "m", "e">>, text |-> <<"r">>],
     [name |-> <<"c", ".", "j", "s">>,                     text |-> <<"g">>] >>

ScenarioFrontend ==
  << [name |-> <<"d", ".", "t", "s">>, text |-> <<"h">>] >>

InitScenario ==
  /\ mainProjectFiles = [k \in 1..Len(ScenarioMain) |-> NewProjectFile(ScenarioMain[k])]
  /\ frontendProjectFiles =
       [k \in 1..Len(ScenarioFrontend) |-> NewProjectFile(ScenarioFrontend[k])]
  /\ appState = "uploading"
  /\ isCancelled = FALSE
  /\ IdleRun
  /\ fileName = <<>>
  /\ label = Null
  /\ IdleRest

NextScenario ==
  \/ Read
  \/ HandleAnalyze
  \/ SkipNonCode
  \/ DocumentBlank
  \/ StartCall
  \/ Return
  \/ Fail
  \/ FinishRun
  \/ HandleCancel

SpecScenario == InitScenario /\ [][NextScenario]_vars

----------------------------------------------------------------------------
\* The documentation service on its own: one answer of the external call, an
\* error or a response, and what the run stores for it

Texts(alphabet) == UNION {[1..n -> alphabet] : n \in 0..MaxTextLen}

RpcFailed == <<"R", "p", "c", " ", "f", "a", "i", "l", "e", "d">>

Quoted(text) == <<"\"">> \o text \o <<"\"">>

\* the text of the object {"error": {"message": m}}, sp after the colons
PayloadText(m, sp) ==
  <<"{">> \o Quoted(<<"e", "r", "r", "o", "r">>) \o <<":">> \o sp
    \o <<"{">> \o Quoted(<<"m", "e", "s", "s", "a", "g", "e">>) \o <<":">> \o sp
    \o Quoted(m) \o <<"}">> \o <<"}">>

\* Errors whose message is a payload with a nested error.message
PayloadErrors ==
  {[kind |-> "payload", inner |-> m, tag |-> <<>>, isError |-> TRUE,
    text |-> PayloadText(m, sp)] :
     m \in Texts({"q", "5", "0"}) \cup {RpcFailed}, sp \in {<<>>, <<" ">>}}

\* Errors whose message holds no double quote, so is no such payload; the
\* empty message among them
RawErrors ==
  {[kind |-> "raw", inner |-> <<>>, tag |-> <<>>, isError |-> TRUE, text |-> m] :
     m \in Texts({"5", "0", "x", "{"}) \cup {RpcFailed}}

\* thrown values that are no Error
ThrownValues ==
  {[kind |-> "thrown", inner |-> <<>>, tag |-> <<>>, isError |-> FALSE, text |-> m] :
     m \in {<<>>, <<"5", "0", "0">>}}

Pads == {<<>>, <<" ">>, <<"\n">>}

FenceTags == {<<>>, <<"j", "s">>, <<"p", "y", "3">>}

\* responses that are one fenced block: the opening fence with its tag on a
\* line of its own, the body, the closing fence
FencedResponses ==
  {[kind |-> "fenced", inner |-> body, tag |-> tag, isError |-> FALSE,
    text |-> pad \o Fence \o tag \o <<"\n">> \o body \o Fence \o pad] :
     body \in Texts({"d", ";", " ", "\n"}), tag \in FenceTags, pad \in Pads}

\* responses that are no fenced block: without a fence, or opened and not
\* closed
PlainResponses ==
  {[kind |-> "plain", inner |-> <<>>, tag |-> <<>>, isError |-> FALSE,
    text |-> pad \o open \o body \o pad] :
     body \in Texts({"d", ";", " ", "\n"}) \ {<<>>}, open \in {<<>>, Fence}, pad \in Pads}

ServiceAnswers ==
  PayloadErrors \cup RawErrors \cup ThrownValues \cup FencedResponses \cup PlainResponses

\* the record the answer is stored in
ServiceFile == NewProjectFile([name |-> <<"a", ".", "j", "s">>, text |-> <<"f">>])

InitService ==
  /\ svcIn \in {Some(answer) : answer \in ServiceAnswers}
  /\ svcOut = Null
  /\ isDownloading = FALSE /\ zip = NoZip
  /\ mainProjectFiles = <<>>
  /\ frontendProjectFiles = <<>>
  /\ appState = "uploading"
  /\ isCancelled = FALSE
  /\ IdleRun
  /\ fileName = <<>>
  /\ label = Null

\* the external call throws: service lines 88-112, then lines 104-106
Reject ==
  /\ svcOut = Null
  /\ svcIn[1].kind \in {"payload", "raw", "thrown"}
  /\ svcOut' = Some(Failed(ServiceFile,
                 [isError |-> TRUE,
                  message |-> MapError([isError |-> svcIn[1].isError,
                                        message |-> svcIn[1].text])]))
  /\ UNCHANGED <<mainProjectFiles, frontendProjectFiles, appState, isCancelled, runVars,
                 clsVars, expVars, svcIn>>

\* the external call returns: service lines 79-86, then line 103
Resolve ==
  /\ svcOut = Null
  /\ svcIn[1].kind \in {"fenced", "plain"}
  /\ svcOut' = Some(Documented(ServiceFile, PostProcess(svcIn[1].text)))
  /\ UNCHANGED <<mainProjectFiles, frontendProjectFiles, appState, isCancelled, runVars,
                 clsVars, expVars, svcIn>>

NextService == Reject \/ Resolve

SpecService == InitService /\ [][NextService]_vars

----------------------------------------------------------------------------
\* The export of the review view (ReviewChanges.handleApplyAndDownload)

\* the download button is enabled by it
hasFilesToDownload ==
  \/ \E k \in 1..Len(mainProjectFiles) : mainProjectFiles[k].isIncluded
  \/ \E k \in 1..Len(frontendProjectFiles) : frontendProjectFiles[k].isIncluded

FinalContentAlwaysDocumented(file) ==
  IF file.documentedContent # Null THEN file.documentedContent[1] ELSE file.content

\* file.isIncluded ? (file.documentedContent ?? file.content) : file.content
FinalContent(file) ==
  IF file.isIncluded
  THEN IF file.documentedContent # Null THEN file.documentedContent[1] ELSE file.content
  ELSE file.content

\* addFilesToZip: a folder is made for a grouping that has files, and every
\* file of the grouping is written to it under its name
AddFilesToZip(files) ==
  IF Len(files) > 0
  THEN Some([k \in 1..Len(files) |-> [name |-> files[k].name, content |-> FinalContent(files[k])]])
  ELSE Null

\* the click on the download button, up to the await of generateAsync
HandleApplyAndDownload ==
  /\ appState = "reviewing"
  /\ pc = "idle"
  /\ hasFilesToDownload
  /\ ~isDownloading
  /\ isDownloading' = TRUE
  /\ zip' = [status |-> "building",
             main_project |-> AddFilesToZip(mainProjectFiles),
             frontend_project |-> AddFilesToZip(frontendProjectFiles)]
  /\ UNCHANGED <<mainProjectFiles, frontendProjectFiles, appState, isCancelled, runVars,
                 clsVars, svcVars>>

\* generateAsync resolves: the archive is downloaded; the finally block
ArchiveCreated ==
  /\ isDownloading
  /\ isDownloading' = FALSE
  /\ zip' = [NoZip EXCEPT !.status = "downloaded"]
  /\ UNCHANGED <<mainProjectFiles, frontendProjectFiles, appState, isCancelled, runVars,
                 clsVars, svcVars>>

\* generateAsync rejects: the catch block alerts; the finally block
ArchiveFailed ==
  /\ isDownloading
  /\ isDownloading' = FALSE
  /\ zip' = [NoZip EXCEPT !.status = "failed"]
  /\ UNCHANGED <<mainProjectFiles, frontendProjectFiles, appState, isCancelled, runVars,
                 clsVars, svcVars>>

NextExport ==
  \/ Next
  \/ HandleApplyAndDownload
  \/ ArchiveCreated
  \/ ArchiveFailed

SpecExport == Init /\ [][NextExport]_vars

----------------------------------------------------------------------------
\* Properties of the run

RunFile(k) == FileAt(allFiles[k])

HasOutcome(f) == f.documentedContent # Null \/ f.error # Null

ExactlyOne(f) == (f.documentedContent # Null) # (f.error # Null)

Untouched(f) == f.documentedContent = Null /\ f.error = Null

\* C1: a file the loop has processed has exactly one of documentedContent and
\* error set, never both and never neither; a file of a finished run has none
\* of them only when cancellation ended the loop before reaching it.
C1_ExactlyOneOutcome ==
  /\ \A project \in Projects : \A k \in 1..Len(Files(project)) :
       ~(Files(project)[k].documentedContent # Null /\ Files(project)[k].error # Null)
  /\ appState = "uploading" =>
       \A project \in Projects : \A k \in 1..Len(Files(project)) :
         Untouched(Files(project)[k])
  /\ appState \in {"loading", "reviewing"} =>
       \A k \in 1..Len(allFiles) :
         /\ k <= i => ExactlyOne(RunFile(k))
         /\ k > i => Untouched(RunFile(k))
         /\ (k > i /\ appState = "reviewing") => (isCancelled /\ cancelAt # -1)

C1_Witness ==
  /\ appState = "reviewing"
  /\ \E k \in 1..Len(allFiles) : k <= i /\ RunFile(k).error # Null
  /\ \E k \in 1..Len(allFiles) : k <= i /\ RunFile(k).documentedContent # Null

\* C2: when the request for a file fails, the message of the failure is
\* stored in that file's error and its documentedContent stays null; no other
\* file gets an error or loses its result; the run is not left by the failure:
\* it goes on, and without a cancel request it ends having processed every file.
C2_FailureContained ==
  /\ \A c \in 1..Len(calls) :
       LET f == RunFile(calls[c].index + 1)
       IN  /\ calls[c].outcome = "threw" =>
                 /\ f.error = calls[c].thrown
                 /\ f.error # Null /\ f.error[1] # <<>>
                 /\ f.documentedContent = Null
           /\ calls[c].outcome = "returned" => (f.error = Null /\ f.documentedContent # Null)
  /\ \A k \in 1..Len(allFiles) :
       RunFile(k).error # Null =>
         \E c \in 1..Len(calls) : calls[c].index + 1 = k /\ calls[c].outcome = "threw"
  /\ \A k \in 1..Len(allFiles) :
       (k <= i /\ ~\E c \in 1..Len(calls) : calls[c].index + 1 = k) =>
         RunFile(k).documentedContent # Null
  /\ appState = "loading" => pc \in {"loop", "await"}
  /\ (appState = "reviewing" /\ cancelAt = -1) => i = Len(allFiles)

C2_Witness ==
  /\ appState = "reviewing"
  /\ Len(allFiles) = 2 /\ i = 2
  /\ RunFile(1).error # Null
  /\ \E c \in 1..Len(calls) : calls[c].index = 0 /\ calls[c].outcome = "threw"
  /\ RunFile(2).documentedContent # Null

\* C3: a cancel request made while the request of the k-th file is in flight
\* does not interrupt it: the request stays outstanding until it returns or
\* fails, its outcome is written to file k, the loop ends before file k + 1,
\* and the finished run has an outcome on files 1..k and none on the others.
C3_CancelAtBoundary ==
  cancelAt # -1 =>
    /\ isCancelled
    /\ pc = "await" => (i = cancelAt /\ i \in inflight)
    /\ pc # "await" => i = cancelAt + 1
    /\ Len(order) = cancelAt + 1
    /\ appState = "reviewing" =>
         \A k \in 1..Len(allFiles) :
           /\ k <= cancelAt + 1 => HasOutcome(RunFile(k))
           /\ k > cancelAt + 1 => Untouched(RunFile(k))

C3_Witness ==
  /\ appState = "reviewing"
  /\ cancelAt = 0
  /\ Len(allFiles) = 2
  /\ HasOutcome(RunFile(1))
  /\ Untouched(RunFile(2))

\* C4: a run starts with the cancel flag false whatever an earlier run left
\* in it, so a run in which no cancel is requested skips no file.
C4_FlagResetAtStart ==
  (appState \in {"loading", "reviewing"} /\ cancelAt = -1) =>
    /\ ~isCancelled
    /\ appState = "reviewing" =>
         (i = Len(allFiles) /\ \A k \in 1..Len(allFiles) : HasOutcome(RunFile(k)))

C4_Witness ==
  /\ staleAtStart
  /\ appState = "reviewing"
  /\ cancelAt = -1
  /\ i = Len(allFiles)
  /\ \A k \in 1..Len(allFiles) : HasOutcome(RunFile(k))

\* C5: the app state is one of uploading, loading and reviewing; a run takes
\* it from uploading to loading, the only way out of loading is to reviewing,
\* and every run that is loading reaches reviewing, failed requests included.
C5_RunCompletes ==
  /\ [](appState \in {"uploading", "loading", "reviewing"})
  /\ [][(pc = "idle" /\ pc' # "idle") => (appState = "uploading" /\ appState' = "loading")]_vars
  /\ [][(appState = "loading" /\ appState' # "loading") => appState' = "reviewing"]_vars
  /\ (appState = "loading") ~> (appState = "reviewing")

C5_Witness ==
  /\ appState = "reviewing"
  /\ i = Len(allFiles)
  /\ \E k \in 1..Len(allFiles) : RunFile(k).error # Null

\* C6: the files are processed in the combined order, the main grouping in
\* its order and then the frontend grouping in its order; a processing step
\* begins only when no request is outstanding, so at most one is in flight.
C6_SequentialInOrder ==
  /\ \A k \in 1..Len(order) :
       order[k].ref = IF k <= Len(mainProjectFiles)
                      THEN [project |-> "main", index |-> k]
                      ELSE [project |-> "frontend", index |-> k - Len(mainProjectFiles)]
  /\ Len(order) <= Len(mainProjectFiles) + Len(frontendProjectFiles)
  /\ Cardinality(inflight) <= 1
  /\ pc = "loop" => (inflight = {} /\ Len(order) = i)
  /\ pc = "await" => (inflight = {i} /\ Len(order) = i + 1)

C6_Witness ==
  /\ pc = "await"
  /\ Len(order) = 2
  /\ order[1].ref.project = "main"
  /\ order[2].ref.project = "frontend"
  /\ HasOutcome(FileAt(order[1].ref))

\* C7: a file whose label is the sentinel, or whose text is blank when it is
\* processed, gets that text back unchanged and causes no external request;
\* the requests of a run are never more than its reached files with another
\* label and a text that is not blank.
C7_NoCallWhenShortCircuited ==
  /\ \A k \in 1..Len(order) :
       LET f == FileAt(order[k].ref)
       IN  (f.language = "code" \/ Trim(order[k].script) = <<>>) =>
             /\ f.documentedContent = Some(order[k].script)
             /\ ~\E c \in 1..Len(calls) : calls[c].index + 1 = k
  /\ Len(calls) <= Cardinality({k \in 1..Len(order) :
                                  /\ FileAt(order[k].ref).language # "code"
                                  /\ Trim(FileAt(order[k].ref).content) # <<>>})

C7_Witness ==
  /\ Len(order) = 2
  /\ calls = <<>>
  /\ \E k \in 1..2 : FileAt(order[k].ref).language = "code" /\ order[k].script # <<>>
  /\ \E k \in 1..2 : /\ FileAt(order[k].ref).language # "code"
                     /\ order[k].script = <<" ">>
                     /\ FileAt(order[k].ref).documentedContent = Some(<<" ">>)

\* C8: no file is processed while its content read is pending: every step of
\* a run reads the text of the file as uploaded, and the documentedContent of
\* a passed-through file is that text.
C8_ContentReadBeforeRun ==
  \A k \in 1..Len(order) :
    LET f == FileAt(order[k].ref)
    IN  /\ order[k].script = f.raw
        /\ f.language = "code" => f.documentedContent = Some(f.raw)

----------------------------------------------------------------------------
\* Properties of the classifier

C9_HasDot(name) == \E k \in 1..Len(name) : name[k] = "."

\* the text after the last dot of a name that has one
C9_Extension(name) ==
  LET k == CHOOSE k \in 1..Len(name) :
             name[k] = "." /\ \A m \in (k + 1)..Len(name) : name[m] # "."
  IN  [m \in 1..(Len(name) - k) |-> name[k + m]]

C9_Table(extension) ==
  CASE extension = <<"j","s">> -> "JavaScript"
    [] extension = <<"t","s">> -> "TypeScript"
    [] extension = <<"p","y">> -> "Python"
    [] extension = <<"j","a","v","a">> -> "Java"
    [] extension = <<"g","o">> -> "Go"
    [] extension = <<"g","s">> -> "Google Apps Script"
    [] OTHER -> "code"

\* C9: the label of a name is that of the text after its last dot, compared
\* without regard to case; a name with an unrecognized extension, or with no
\* dot at all, gets the sentinel label.
C9_ClassifyByExtension ==
  label # Null =>
    label[1] = IF C9_HasDot(fileName)
               THEN C9_Table(ToLowerCase(C9_Extension(fileName)))
               ELSE "code"

----------------------------------------------------------------------------
\* Properties of the project context

C10_Combined ==
  [k \in 1..(Len(mainProjectFiles) + Len(frontendProjectFiles)) |->
     IF k <= Len(mainProjectFiles) THEN mainProjectFiles[k]
     ELSE frontendProjectFiles[k - Len(mainProjectFiles)]]

C10_Named(f, word) ==
  /\ Len(f.name) >= Len(word)
  /\ \A j \in 1..Len(word) : ToLowerChar(f.name[j]) = word[j]

RECURSIVE C10_Lines(_, _)
\* the list of the first n names, one item to a line
C10_Lines(files, n) ==
  IF n = 0 THEN <<>>
  ELSE C10_Lines(files, n - 1) \o (IF n > 1 THEN <<"\n">> ELSE <<>>)
       \o <<"- ">> \o files[n].name

\* the section of the first file named by the word, nothing when there is none
C10_Section(files, word, open, close) ==
  IF \E k \in 1..Len(files) : C10_Named(files[k], word)
  THEN LET k == CHOOSE k \in 1..Len(files) :
                  /\ C10_Named(files[k], word)
                  /\ \A m \in 1..(k - 1) : ~C10_Named(files[m], word)
       IN  <<open>> \o files[k].content \o <<close>>
  ELSE <<>>

C10_Expected ==
  <<"This project contains the following files:\n">>
  \o C10_Lines(C10_Combined, Len(C10_Combined))
  \o C10_Section(C10_Combined, <<"r","e","a","d","m","e">>,
                 "\n\n--- PROJECT README ---\n", "\n--- END README ---")
  \o C10_Section(C10_Combined, <<"c","h","a","n","g","e","l","o","g">>,
                 "\n\n--- PROJECT CHANGELOG ---\n", "\n--- END CHANGELOG ---")

\* C10: the context built when a run starts is the list of all file names in
\* combined order, then the README section with the content of the first
\* file whose name starts with readme in any case, then the CHANGELOG section
\* with the content of the first file whose name starts with changelog; a
\* section is there exactly when such a file is; the context does not change
\* during the run and every request of the run carries it.
C10_ContextOfRun ==
  /\ [][(pc = "idle" /\ pc' = "loop") => ctx' = C10_Expected]_vars
  /\ [][pc # "idle" => ctx' = ctx]_vars
  /\ [](\A c \in 1..Len(calls) : calls[c].projectContext = ctx)

C10_Witness ==
  /\ pc = "await"
  /\ calls # <<>>
  /\ calls[Len(calls)].projectContext = ctx
  /\ Includes(ctx, <<"\n\n--- PROJECT README ---\n", "r", "\n--- END README ---">>)

----------------------------------------------------------------------------
\* Properties of the ordering scenario

C11_Names == << <<"a", ".", "p", "y">>, <<"b", ".", "r", "e", "a", "d", "m", "e">>,
                <<"c", ".", "j", "s">>, <<"d", ".", "t", "s">> >>

C11_InOrder ==
  /\ Len(order) <= Len(C11_Names)
  /\ \A k \in 1..Len(order) : FileAt(order[k].ref).name = C11_Names[k]

C11_ReadmeSection(text) ==
  <<"\n\n--- PROJECT README ---\n">> \o text \o <<"\n--- END README ---">>

\* C11 as stated: the files are processed in the order a.py, b.readme, c.js,
\* d.ts and the context of the run holds a README section with the content
\* of b.readme (its text, or the empty text of a read still pending).
C11_OrderAndReadmeFromB ==
  /\ C11_InOrder
  /\ appState # "uploading" =>
       \E text \in {<<>>, <<"r">>} : Includes(ctx, C11_ReadmeSection(text))

\* C11, amended: the files are processed in the order a.py, b.readme, c.js,
\* d.ts; the context of the run lists these four names and holds no README
\* section, since the name b.readme does not start with readme.
C11_OrderAndNoReadme ==
  /\ C11_InOrder
  /\ appState # "uploading" =>
       /\ ctx = <<"This project contains the following files:\n">>
                \o <<"- ">> \o C11_Names[1] \o <<"\n", "- ">> \o C11_Names[2]
                \o <<"\n", "- ">> \o C11_Names[3] \o <<"\n", "- ">> \o C11_Names[4]
       /\ ~Includes(ctx, <<"\n\n--- PROJECT README ---\n">>)

C11_Witness ==
  /\ appState = "reviewing"
  /\ Len(order) = 4
  /\ \A k \in 1..4 : FileAt(order[k].ref).name = C11_Names[k]
  /\ calls # <<>>

----------------------------------------------------------------------------
\* Properties of the export

C12_Handed(file) ==
  IF file.isIncluded /\ file.documentedContent # Null
  THEN file.documentedContent[1]
  ELSE file.content

C12_Folder(files, folder) ==
  IF files = <<>>
  THEN folder = Null
  ELSE /\ folder # Null
       /\ Len(folder[1]) = Len(files)
       /\ \A k \in 1..Len(files) :
            /\ folder[1][k].name = files[k].name
            /\ folder[1][k].content = C12_Handed(files[k])

----------------------------------------------------------------------------
\* Properties of the inclusion toggle

\* the fields of a ProjectFile
C13_Fields(f) ==
  <<f.name, f.content, f.language, f.documentedContent, f.error, f.isIncluded>>

C13_FilesAfter(project) ==
  IF project = "main" THEN mainProjectFiles' ELSE frontendProjectFiles'

\* the records a step changes
C13_Changed ==
  {ref \in Refs("main") \cup Refs("frontend") :
     C13_Fields(FileAt(ref)) # C13_Fields(C13_FilesAfter(ref.project)[ref.index])}

C13_TwiceRestores(files) ==
  \A k \in 1..Len(files) :
    LET twice == Toggled(Toggled(files, files[k].name), files[k].name)
    IN  /\ Len(twice) = Len(files)
        /\ \A n \in 1..Len(files) : C13_Fields(twice[n]) = C13_Fields(files[n])

\* C13: a step that toggles the inclusion of a file flips isIncluded of one
\* record, the one the toggle was invoked on, and changes no other record, no
\* other field and no membership or order of a grouping; toggling the same
\* file twice restores the groupings.
C13_ToggleFlipsOneRecord ==
  [][ /\ ( /\ appState = "reviewing" /\ appState' = "reviewing"
           /\ \E ref \in C13_Changed :
                FileAt(ref).isIncluded # C13_FilesAfter(ref.project)[ref.index].isIncluded )
         => /\ Len(mainProjectFiles') = Len(mainProjectFiles)
            /\ Len(frontendProjectFiles') = Len(frontendProjectFiles)
            /\ Cardinality(C13_Changed) = 1
            /\ \A ref \in C13_Changed :
                 C13_Fields(C13_FilesAfter(ref.project)[ref.index]) =
                   C13_Fields([FileAt(ref) EXCEPT !.isIncluded = ~FileAt(ref).isIncluded])
      /\ C13_TwiceRestores(mainProjectFiles)
      /\ C13_TwiceRestores(frontendProjectFiles) ]_vars

----------------------------------------------------------------------------
\* Properties of the service

C14_Stored == svcOut[1].error[1]

C14_Rejected == svcOut # Null /\ svcIn[1].kind \in {"payload", "raw", "thrown"}

C14_Hinted(message) ==
  IF Includes(message, <<"5", "0", "0">>) \/ Includes(message, RpcFailed)
  THEN message \o RetryHint
  ELSE message

\* C14 as claimed: every error of the external call is stored as a non-empty
\* message, which is 'The AI model returned an error: ' + m for a payload with
\* nested error.message m, 'An unexpected error occurred: ' + the raw message
\* for any other message, and the generic unknown-error message when there is
\* no message.
C14_MappingWithoutHint ==
  C14_Rejected =>
    /\ svcOut[1].error # Null /\ C14_Stored # <<>>
    /\ svcOut[1].documentedContent = Null
    /\ svcIn[1].kind = "payload" =>
         C14_Stored = <<"The AI model returned an error: ">> \o svcIn[1].inner
    /\ (svcIn[1].kind = "raw" /\ svcIn[1].text # <<>>) =>
         C14_Stored = <<"An unexpected error occurred: ">> \o svcIn[1].text
    /\ (svcIn[1].kind = "thrown" \/ svcIn[1].text = <<>>) =>
         C14_Stored = UnknownServiceError

\* C14: every error of the external call is stored as a non-empty message:
\* 'The AI model returned an error: ' + m for a payload with a non-empty
\* nested error.message m, 'An unexpected error occurred: ' + the raw message
\* for any other non-empty message, and the generic unknown-error message
\* when the message is empty or the thrown value is no Error; the remediation
\* hint is appended when that message contains '500' or 'Rpc failed'.
C14_MappingWithHint ==
  C14_Rejected =>
    /\ svcOut[1].error # Null /\ C14_Stored # <<>>
    /\ svcOut[1].documentedContent = Null
    /\ (svcIn[1].kind = "payload" /\ svcIn[1].inner # <<>>) =>
         C14_Stored = C14_Hinted(<<"The AI model returned an error: ">> \o svcIn[1].inner)
    /\ (svcIn[1].isError /\ svcIn[1].text # <<>>
          /\ (svcIn[1].kind = "raw" \/ svcIn[1].inner = <<>>)) =>
         C14_Stored = C14_Hinted(<<"An unexpected error occurred: ">> \o svcIn[1].text)
    /\ (svcIn[1].kind = "thrown" \/ svcIn[1].text = <<>>) =>
         C14_Stored = UnknownServiceError

\* a payload whose nested message holds the marker has been stored, with the
\* prefix before it and the hint after it
C14_Witness ==
  /\ C14_Rejected
  /\ svcIn[1].kind = "payload"
  /\ svcIn[1].inner = <<"5", "0", "0">>
  /\ C14_Stored = <<"The AI model returned an error: ", "5", "0", "0">> \o RetryHint

C15_Resolved == svcOut # Null /\ svcIn[1].kind \in {"fenced", "plain"}

\* C15: a response that is one fenced block is stored as the text between
\* the fences, trimmed and without the language tag of the opening fence; any
\* other response is stored trimmed and otherwise unchanged.
C15_FenceStripped ==
  C15_Resolved =>
    /\ svcOut[1].error = Null
    /\ svcIn[1].kind = "fenced" => svcOut[1].documentedContent = Some(Trim(svcIn[1].inner))
    /\ svcIn[1].kind = "plain" => svcOut[1].documentedContent = Some(Trim(svcIn[1].text))

----------------------------------------------------------------------------
\* Properties of a run in progress

C16_After(ref) == C13_FilesAfter(ref.project)[ref.index]

\* C16: while the app state is 'loading' no upload, start of a run, toggle or
\* reset is enabled; the lists the run captured are the lists of the app, and
\* the run commits them as they are; a step changes no name, language,
\* isIncluded, membership or order, content changes only by a pending
\* FileReader delivering its text; the run in progress is never restarted:
\* its captured list and context stay, its position and its log only grow.
C16_RunIsNotInterleaved ==
  [][ appState = "loading" =>
        /\ ~ENABLED Upload /\ ~ENABLED HandleAnalyze
        /\ ~ENABLED Toggle /\ ~ENABLED HandleReset
        /\ appState' \in {"loading", "reviewing"}
        /\ allFiles = AllFilesOf(mainProjectFiles, frontendProjectFiles)
        /\ allFiles' = allFiles /\ ctx' = ctx
        /\ i' >= i /\ Len(calls') >= Len(calls)
        /\ Len(order') >= Len(order) /\ SubSeq(order', 1, Len(order)) = order
        /\ (isCancelled => isCancelled')
        /\ Len(mainProjectFiles') = Len(mainProjectFiles)
        /\ Len(frontendProjectFiles') = Len(frontendProjectFiles)
        /\ \A ref \in Refs("main") \cup Refs("frontend") :
             /\ C16_After(ref).name = FileAt(ref).name
             /\ C16_After(ref).language = FileAt(ref).language
             /\ C16_After(ref).isIncluded = FileAt(ref).isIncluded
             /\ C16_After(ref).content # FileAt(ref).content =>
                  (FileAt(ref).pending /\ C16_After(ref).content = FileAt(ref).raw)
        /\ appState' = "reviewing" =>
             /\ mainProjectFiles' = mainProjectFiles
             /\ frontendProjectFiles' = frontendProjectFiles ]_vars

\* a run over two files waits for the answer about the second one, the
\* first one documented, after Cancel was clicked
C16_Witness ==
  /\ appState = "loading" /\ pc = "await"
  /\ Len(allFiles) = 2 /\ i = 1
  /\ RunFile(1).documentedContent # Null
  /\ isCancelled

====
